---- MODULE Spec2Model ----
(***************************************************************************)
(* The hierarchical note store of terminal-notes (src/lib/fileSystem.ts):  *)
(* a flat IndexedDB object store 'files', keyed by the record's path, with *)
(* path-aware create / update / delete / move / copy on top of it.         *)
(*                                                                         *)
(* Strings that the code takes apart (paths and names) are sequences of    *)
(* one-character strings, so that startsWith, substring, lastIndexOf and   *)
(* split are computed as the code computes them.  File contents are never  *)
(* taken apart by the store and stay TLA+ strings.                         *)
(*                                                                         *)
(* Spec, SpecClock and SpecRelative run each call of the store whole;      *)
(* SpecResolve applies resolvePath to bounded strings; SpecSteps runs      *)
(* moveItem and deleteItem one store request at a time; SpecTerminal puts  *)
(* the Terminal component (src/components/Terminal.tsx) on top of the      *)
(* store, with the operations its handlers await.                          *)
(* SpecWaiting is the terminal with one command at a time; SpecOverlap     *)
(* runs initDB and the creates one await at a time for two callers;        *)
(* SpecHistory runs the command line's history keys.                       *)
(***************************************************************************)
EXTENDS Integers, Sequences, FiniteSets, TLC

VARIABLES db, files, clock, resolved, call, term

vars == <<db, files, clock, resolved, call, term>>

(***************************************************************************)
(* Bounds of the model.                                                    *)
(***************************************************************************)
MaxNodes == 4
MaxPathLen == 4
MaxOdd == 1
MaxClock == 1
MaxClockNodes == 3
MaxRelativeNodes == 2
MaxResolveLen == 4
MaxUp == 3
MaxStepNodes == 4
MaxStepLen == 6
MaxTermNodes == 3
MaxPending == 2
MaxCallers == 2
MaxInputLen == 2
MaxHistory == 2

(***************************************************************************)
(* Characters and strings.                                                 *)
(***************************************************************************)
SLASH == "/"

EMPTY == << >>

Root == <<"/">>

\* UTF-16 code unit of a character: the order of IndexedDB string keys.
Code(c) == CASE c = "/" -> 47 [] c = "B" -> 66 [] c = "a" -> 97 [] OTHER -> 0

\* Collation weight of a character under String.prototype.localeCompare:
\* punctuation before letters, letters in alphabetical order whatever their
\* case (no two characters of the model differ in case only).
Collate(c) == CASE c = "/" -> 1 [] c = "a" -> 2 [] c = "B" -> 3 [] OTHER -> 0

\* The names a caller passes to createFolder / createFile.
Names == { EMPTY, <<"a">>, <<"B">> }

\* The contents a caller passes to createFile / updateFile.
Contents == { "", "hi" }

\* String.prototype.startsWith
startsWith(s, p) == Len(p) <= Len(s) /\ SubSeq(s, 1, Len(p)) = p

\* String.prototype.lastIndexOf('/') : 0-based index, -1 when absent
lastIndexOf(s) ==
  LET idx == { i \in 1..Len(s) : s[i] = SLASH }
  IN  IF idx = {} THEN -1 ELSE (CHOOSE i \in idx : \A j \in idx : j <= i) - 1

\* String.prototype.substring(a, b) : negative arguments count as 0
substring(s, a, b) ==
  LET lo == IF a < 0 THEN 0 ELSE a
      hi == IF b < 0 THEN 0 ELSE b
  IN  SubSeq(s, lo + 1, hi)

\* String.prototype.substring(a)
substringFrom(s, a) == SubSeq(s, a + 1, Len(s))

\* s.split('/').pop() : what follows the last '/', the whole string if none
splitPop(s) == substringFrom(s, lastIndexOf(s) + 1)

\* s || d on strings: the empty string is falsy
orElse(s, d) == IF s = EMPTY THEN d ELSE s

\* path === '/' ? `/${name}` : `${path}/${name}`
fullPath(path, name) ==
  IF path = Root THEN <<SLASH>> \o name ELSE path \o <<SLASH>> \o name

\* s < t in the order of IndexedDB keys (code units, shorter prefix first)
RECURSIVE keyLess(_, _)
keyLess(s, t) ==
  IF t = EMPTY THEN FALSE
  ELSE IF s = EMPTY THEN TRUE
  ELSE IF Code(Head(s)) # Code(Head(t)) THEN Code(Head(s)) < Code(Head(t))
  ELSE keyLess(Tail(s), Tail(t))

(***************************************************************************)
(* The object store: a function from key (path) to record.                 *)
(***************************************************************************)
FileSystemItem(path, name, type, content, parentPath, createdAt, updatedAt) ==
  [ path |-> path, name |-> name, type |-> type, content |-> content,
    parentPath |-> parentPath, createdAt |-> createdAt, updatedAt |-> updatedAt ]

\* A put that stamps the record's creation anew.
putCreatedAnew(f, item) ==
  [ k \in DOMAIN f \cup {item.path} |->
      IF k = item.path THEN [item EXCEPT !.createdAt = item.updatedAt]
      ELSE f[k] ]

\* database.put('files', item) : keyPath 'path', replaces a record of that key
put(f, item) ==
  [ k \in DOMAIN f \cup {item.path} |-> IF k = item.path THEN item ELSE f[k] ]

\* A delete that also removes every record with the name of the one at key.
deleteNamesakes(f, key) ==
  [ k \in { q \in DOMAIN f :
              q # key /\ (key \notin DOMAIN f \/ f[q].name # f[key].name) }
      |-> f[k] ]

\* database.delete('files', key)
delete(f, key) == [ k \in DOMAIN f \ {key} |-> f[k] ]

\* database.get('files', key) is defined
has(f, key) == key \in DOMAIN f

\* database.getAll('files') : the keys in ascending key order
RECURSIVE sortKeys(_)
sortKeys(S) ==
  IF S = {} THEN << >>
  ELSE LET m == CHOOSE x \in S : \A y \in S \ {x} : keyLess(x, y)
       IN  <<m>> \o sortKeys(S \ {m})

getAllItems(f) == sortKeys(DOMAIN f)

\* An operation's outcome: the store it leaves, the error it threw ("none"
\* when it returned), and how many clock readings it has consumed.
Ok(f, k) == [ files |-> f, err |-> "none", reads |-> k ]

Fail(f, e, k) == [ files |-> f, err |-> e, reads |-> k ]

\* The most Date.now() calls one operation makes: two by initDB, two for the
\* source and two for each descendant by copyItem.
MaxReads == 2 * MaxNodes + 2

(***************************************************************************)
(* The operations of the store.  Each takes the store f, its arguments,    *)
(* the clock readings ts that its Date.now() calls return in order, and    *)
(* the number k of readings consumed before it.                            *)
(***************************************************************************)

\* initDB: opens the database once; creates the root folder if absent.
initDB(f, d, ts) ==
  IF d = "open" THEN Ok(f, 0)
  ELSE IF has(f, Root) THEN Ok(f, 0)
  ELSE Ok(put(f, FileSystemItem(Root, Root, "folder", "", EMPTY, ts[1], ts[2])), 2)

getItem(f, path) == f[path]

\* s.localeCompare(t) < 0
RECURSIVE localeLess(_, _)
localeLess(s, t) ==
  IF t = EMPTY THEN FALSE
  ELSE IF s = EMPTY THEN TRUE
  ELSE IF Collate(Head(s)) # Collate(Head(t))
       THEN Collate(Head(s)) < Collate(Head(t))
  ELSE localeLess(Tail(s), Tail(t))

\* The comparator with the names compared before the types.
listBeforeByName(a, b) ==
  IF localeLess(a.name, b.name) \/ localeLess(b.name, a.name)
  THEN localeLess(a.name, b.name)
  ELSE IF a.type # b.type THEN a.type = "folder"
  ELSE keyLess(a.path, b.path)

\* The comparator of listDirectory: folders first, then name.localeCompare;
\* Array.prototype.sort is stable, so ties keep the order of the index
\* (index key, then primary key).
listBefore(a, b) ==
  IF a.type # b.type THEN a.type = "folder"
  ELSE IF localeLess(a.name, b.name) \/ localeLess(b.name, a.name)
  THEN localeLess(a.name, b.name)
  ELSE keyLess(a.path, b.path)

RECURSIVE sortItems(_)
sortItems(S) ==
  IF S = {} THEN << >>
  ELSE LET m == CHOOSE x \in S : \A y \in S \ {x} : listBefore(x, y)
       IN  <<m>> \o sortItems(S \ {m})

listDirectory(f, path) ==
  sortItems({ f[k] : k \in { q \in DOMAIN f : f[q].parentPath = path } })

createFolder(f, path, name, ts, k) ==
  LET fullP == fullPath(path, name)
  IN  IF has(f, fullP) THEN Fail(f, "FolderExists", k)
      ELSE Ok(put(f, FileSystemItem(fullP, name, "folder", "", path,
                                    ts[k + 1], ts[k + 2])), k + 2)

\* createFile without the lookup of the full path: an upsert.
createFileOverwriting(f, path, name, content, ts, k) ==
  Ok(put(f, FileSystemItem(fullPath(path, name), name, "file", content, path,
                           ts[k + 1], ts[k + 2])), k + 2)

createFile(f, path, name, content, ts, k) ==
  LET fullP == fullPath(path, name)
  IN  IF has(f, fullP) THEN Fail(f, "FileExists", k)
      ELSE Ok(put(f, FileSystemItem(fullP, name, "file", content, path,
                                    ts[k + 1], ts[k + 2])), k + 2)

\* updateFile stamping createdAt as well as updatedAt.
updateFileRestamped(f, path, content, ts, k) ==
  IF ~has(f, path) THEN Fail(f, "FileNotFound", k)
  ELSE IF f[path].type # "file" THEN Fail(f, "CannotEditFolder", k)
  ELSE Ok(put(f, [f[path] EXCEPT !.content = content,
                                 !.createdAt = ts[k + 1],
                                 !.updatedAt = ts[k + 1]]), k + 1)

\* updateFile with the put before the check of the node's type.
updateFileWritingFirst(f, path, content, ts, k) ==
  IF ~has(f, path) THEN Fail(f, "FileNotFound", k)
  ELSE IF f[path].type # "file"
  THEN Fail(put(f, [f[path] EXCEPT !.content = content,
                                   !.updatedAt = ts[k + 1]]),
            "CannotEditFolder", k + 1)
  ELSE Ok(put(f, [f[path] EXCEPT !.content = content,
                                 !.updatedAt = ts[k + 1]]), k + 1)

\* updateFile without the check of the node's type.
updateFileOfAnyType(f, path, content, ts, k) ==
  IF ~has(f, path) THEN Fail(f, "FileNotFound", k)
  ELSE Ok(put(f, [f[path] EXCEPT !.content = content,
                                 !.updatedAt = ts[k + 1]]), k + 1)

updateFile(f, path, content, ts, k) ==
  IF ~has(f, path) THEN Fail(f, "FileNotFound", k)
  ELSE IF f[path].type # "file" THEN Fail(f, "CannotEditFolder", k)
  ELSE Ok(put(f, [f[path] EXCEPT !.content = content,
                                 !.updatedAt = ts[k + 1]]), k + 1)

\* deleteItem recurses over listDirectory(path); an error thrown by a nested
\* call ends the whole operation and leaves what was deleted so far deleted.
RECURSIVE deleteItem(_, _, _), deleteChildren(_, _, _, _)
deleteItem(f, path, k) ==
  IF ~has(f, path) THEN Fail(f, "NotFound", k)
  ELSE IF path = Root THEN Fail(f, "CannotDeleteRoot", k)
  ELSE LET r == IF f[path].type = "folder"
                THEN deleteChildren(f, listDirectory(f, path), 1, k)
                ELSE Ok(f, k)
       IN  IF r.err # "none" THEN r ELSE Ok(delete(r.files, path), k)

deleteChildren(f, children, i, k) ==
  IF i > Len(children) THEN Ok(f, k)
  ELSE LET r == deleteItem(f, children[i].path, k)
       IN  IF r.err # "none" THEN r
           ELSE deleteChildren(r.files, children, i + 1, k)

\* The final destination taken to be destPath as given, also when destPath
\* is a folder (the move-into-folder rule left out).
finalDestAsGiven(f, source, destPath) == destPath

\* The final destination of moveItem / copyItem.
finalDest(f, source, destPath) ==
  IF has(f, destPath) /\ f[destPath].type = "folder"
  THEN fullPath(destPath, source.name)
  ELSE destPath

\* finalDestPath.substring(0, finalDestPath.lastIndexOf('/')) || '/'
parentOf(p) == orElse(substring(p, 0, lastIndexOf(p)), Root)

\* allItems.filter(item => item.path.startsWith(sourcePath + '/'))
childrenOf(f, sourcePath) ==
  LET all == getAllItems(f)
  IN  SelectSeq(all, LAMBDA p : startsWith(p, sourcePath \o <<SLASH>>))

\* The loop of moveItem over the snapshot snap of the store.
RECURSIVE moveChildren(_, _, _, _, _, _, _, _)
moveChildren(f, snap, children, i, sourcePath, finalDestPath, ts, k) ==
  IF i > Len(children) THEN Ok(f, k)
  ELSE LET child == snap[children[i]]
           suffix == substringFrom(child.path, Len(sourcePath))
           newChildPath == finalDestPath \o suffix
           newChildParent == parentOf(newChildPath)
           f1 == put(f, [child EXCEPT !.path = newChildPath,
                                      !.parentPath = newChildParent,
                                      !.updatedAt = ts[k + 1]])
           f2 == delete(f1, child.path)
       IN  moveChildren(f2, snap, children, i + 1, sourcePath, finalDestPath,
                        ts, k + 1)

\* The checks on the source with the one on the root left out.
moveSourceUnguarded(f, sourcePath) ==
  IF ~has(f, sourcePath) THEN "SourceNotFound" ELSE "none"

\* The checks on the source that open moveItem: the error thrown, or "none".
moveSource(f, sourcePath) ==
  IF ~has(f, sourcePath) THEN "SourceNotFound"
  ELSE IF sourcePath = Root THEN "CannotMoveRoot"
  ELSE "none"

moveItem(f, sourcePath, destPath, ts, k) ==
  IF moveSource(f, sourcePath) # "none"
  THEN Fail(f, moveSource(f, sourcePath), k)
  ELSE
    LET source == f[sourcePath]
        finalDestPath == finalDest(f, source, destPath)
    IN  IF has(f, destPath) /\ f[destPath].type # "folder"
        THEN Fail(f, "DestinationExists", k)
        ELSE IF source.type = "folder"
                /\ ( finalDestPath = sourcePath
                     \/ startsWith(finalDestPath, sourcePath \o <<SLASH>>) )
        THEN Fail(f, "IntoItself", k)
        ELSE
          LET parentPath == parentOf(finalDestPath)
              name == orElse(splitPop(finalDestPath), source.name)
              f1 == put(f, [source EXCEPT !.path = finalDestPath,
                                          !.parentPath = parentPath,
                                          !.name = name,
                                          !.updatedAt = ts[k + 1]])
              r == IF source.type = "folder"
                   THEN moveChildren(f1, f1, childrenOf(f1, sourcePath), 1,
                                     sourcePath, finalDestPath, ts, k + 1)
                   ELSE Ok(f1, k + 1)
          IN  Ok(delete(r.files, sourcePath), r.reads)

\* The loop of copyItem over the snapshot snap of the store.
RECURSIVE copyChildren(_, _, _, _, _, _, _, _)
copyChildren(f, snap, children, i, sourcePath, finalDestPath, ts, k) ==
  IF i > Len(children) THEN Ok(f, k)
  ELSE LET child == snap[children[i]]
           suffix == substringFrom(child.path, Len(sourcePath))
           newChildPath == finalDestPath \o suffix
           newChildParent == parentOf(newChildPath)
           f1 == put(f, [child EXCEPT !.path = newChildPath,
                                      !.parentPath = newChildParent,
                                      !.createdAt = ts[k + 1],
                                      !.updatedAt = ts[k + 2]])
       IN  copyChildren(f1, snap, children, i + 1, sourcePath, finalDestPath,
                        ts, k + 2)

\* The checks on the source that open copyItem: the error thrown, or "none".
copySource(f, sourcePath) ==
  IF ~has(f, sourcePath) THEN "SourceNotFound"
  ELSE IF sourcePath = Root THEN "CannotCopyRoot"
  ELSE "none"

copyItem(f, sourcePath, destPath, ts, k) ==
  IF copySource(f, sourcePath) # "none"
  THEN Fail(f, copySource(f, sourcePath), k)
  ELSE
    LET source == f[sourcePath]
        finalDestPath == finalDest(f, source, destPath)
    IN  IF has(f, destPath) /\ f[destPath].type # "folder"
        THEN Fail(f, "DestinationExists", k)
        ELSE IF source.type = "folder"
                /\ ( finalDestPath = sourcePath
                     \/ startsWith(finalDestPath, sourcePath \o <<SLASH>>) )
        THEN Fail(f, "IntoItself", k)
        ELSE
          LET parentPath == parentOf(finalDestPath)
              name == orElse(splitPop(finalDestPath), source.name)
              f1 == put(f, [source EXCEPT !.path = finalDestPath,
                                          !.parentPath = parentPath,
                                          !.name = name,
                                          !.createdAt = ts[k + 1],
                                          !.updatedAt = ts[k + 2]])
          IN  IF source.type = "folder"
              THEN copyChildren(f1, f1, childrenOf(f1, sourcePath), 1,
                                sourcePath, finalDestPath, ts, k + 2)
              ELSE Ok(f1, k + 2)

(***************************************************************************)
(* resolvePath and normalizePath.                                          *)
(***************************************************************************)
\* String.prototype.split('/') : the pieces between the slashes, one piece
\* (the whole string, possibly empty) when there is no slash.
RECURSIVE split(_)
split(s) ==
  LET idx == { i \in 1..Len(s) : s[i] = SLASH }
  IN  IF idx = {} THEN << s >>
      ELSE LET i == CHOOSE i \in idx : \A j \in idx : i <= j
           IN  << SubSeq(s, 1, i - 1) >> \o split(SubSeq(s, i + 1, Len(s)))

\* Array.prototype.filter(Boolean) without its test: every piece is kept.
keepAll(parts) == parts

\* Array.prototype.filter(Boolean) on strings: the empty pieces are dropped.
filterBoolean(parts) == SelectSeq(parts, LAMBDA part : part # EMPTY)

\* Array.prototype.join('/')
RECURSIVE join(_)
join(parts) ==
  IF parts = << >> THEN EMPTY
  ELSE IF Len(parts) = 1 THEN parts[1]
  ELSE parts[1] \o <<SLASH>> \o join(Tail(parts))

\* A pop that removes nothing.
popNothing(parts) == parts

\* Array.prototype.pop() : the array without its last element; nothing
\* happens to an empty array.
pop(parts) ==
  IF parts = << >> THEN parts ELSE SubSeq(parts, 1, Len(parts) - 1)

DOT == <<".">>

DOTDOT == <<".", ".">>

\* for (const part of targetParts) { '..' pops, '.' is skipped, else push }
RECURSIVE walk(_, _, _)
walk(parts, targetParts, i) ==
  IF i > Len(targetParts) THEN parts
  ELSE IF targetParts[i] = DOTDOT THEN walk(pop(parts), targetParts, i + 1)
  ELSE IF targetParts[i] # DOT
       THEN walk(Append(parts, targetParts[i]), targetParts, i + 1)
  ELSE walk(parts, targetParts, i + 1)

\* return '/' + result.join('/') || '/'   ('+' binds tighter than '||')
normalizePath(path) ==
  orElse(<<SLASH>> \o join(walk(<< >>, filterBoolean(split(path)), 1)), Root)

\* resolvePath without its absolute branch.
resolvePathRelativeOnly(currentPath, targetPath) ==
  orElse(<<SLASH>> \o join(walk(filterBoolean(split(currentPath)),
                                filterBoolean(split(targetPath)), 1)), Root)

resolvePath(currentPath, targetPath) ==
  IF startsWith(targetPath, <<SLASH>>) THEN normalizePath(targetPath)
  ELSE
    LET parts == IF currentPath = Root THEN << >>
                 ELSE filterBoolean(split(currentPath))
        targetParts == filterBoolean(split(targetPath))
    IN  orElse(<<SLASH>> \o join(walk(parts, targetParts, 1)), Root)

(***************************************************************************)
(* The state machine.  db is the module-level handle ("null" until initDB  *)
(* has opened the database), files the object store, clock the value of    *)
(* Date.now(), resolved the calls of resolvePath made on one pair of       *)
(* arguments, call the moveItem or deleteItem that is between two of its   *)
(* awaits, term the state of the Terminal component (terminalState) with   *)
(* the store operations its handlers have started and not yet seen return. *)
(***************************************************************************)
\* The terminal as it is first rendered: at '/', not editing (editingFile
\* null is the empty string here: both are falsy), nothing pending.
Prompt ==
  [ currentPath |-> Root, editingFile |-> EMPTY, editContent |-> "",
    pending |-> << >> ]

\* No call is in progress.
Idle == [ op |-> "none" ]

\* No call of resolvePath has been made.
NotResolved ==
  [ currentPath |-> EMPTY, targetPath |-> EMPTY,
    first |-> EMPTY, second |-> EMPTY, calls |-> 0 ]

Init ==
  /\ db = "null"
  /\ files = << >>
  /\ clock = 0
  /\ resolved = NotResolved
  /\ call = Idle
  /\ term = Prompt

\* The store as an operation finds it after its leading `await initDB()`.
opened(f, d) ==
  IF d = "null" /\ ~has(f, Root)
  THEN put(f, FileSystemItem(Root, Root, "folder", "", EMPTY, clock, clock))
  ELSE f

\* The paths of the stored nodes.
StoredArgs == DOMAIN opened(files, db)

\* The path arguments a caller passes: the path of a stored node, a path
\* one name below a stored node, or the empty string.
PathArgs ==
  { p \in StoredArgs \cup { fullPath(q, n) : q \in StoredArgs, n \in Names }
           \cup { EMPTY } :
      Len(p) <= MaxPathLen }

\* A path that is empty or has an empty segment (a trailing or a doubled '/').
oddPath(p) ==
  \/ p = EMPTY
  \/ p # Root /\ \E i \in 1..Len(p) :
                    p[i] = SLASH /\ (i = Len(p) \/ p[i + 1] = SLASH)

\* A record at an odd path, or a record at '/' that is not the root folder's.
odd(item) == oddPath(item.path) \/ (item.path = Root /\ item.name # Root)

\* The part of the state space that is explored: at most maxNodes records, of
\* which at most MaxOdd odd ones, and no path longer than MaxPathLen.
WithinBounds(f, maxNodes) ==
  /\ Cardinality(DOMAIN f) <= maxNodes
  /\ Cardinality({ p \in DOMAIN f : odd(f[p]) }) <= MaxOdd
  /\ \A p \in DOMAIN f : Len(p) <= MaxPathLen

\* Clock readings of calls that fall within one tick of the clock.
Still == { [ i \in 1..MaxReads |-> clock ] }

\* Clock readings of calls during which the clock may advance: any
\* non-decreasing readings from the present time on.  The clock reaches time
\* c at the reading numbered at[c] (at none of them when at[c] > MaxReads).
Ticking ==
  { [ i \in 1..MaxReads |->
        clock + Cardinality({ c \in (clock + 1)..MaxClock : at[c] <= i }) ] :
      at \in [ (clock + 1)..MaxClock -> 1..(MaxReads + 1) ] }

\* One call of an operation Op, run to completion, its Date.now() calls
\* returning the readings ts in order.  The actions below take the readings
\* R of the clock, the bound m on the nodes, the set P of the path
\* arguments and the set N of the names callers pass.  A call that throws without having
\* written anything leaves the state as it was.  (Readings beyond the ones
\* the call consumed are the last one consumed.)
Commit(Op(_), R, maxNodes) ==
  \E ts \in R :
    \E r \in { Op(ts) } :
      /\ r.err = "none" \/ r.files # files
      /\ \A i \in (r.reads + 1)..MaxReads :
            ts[i] = (IF r.reads = 0 THEN clock ELSE ts[r.reads])
      /\ WithinBounds(r.files, maxNodes)
      /\ files' = r.files
      /\ clock' = IF r.reads = 0 THEN clock ELSE ts[r.reads]
      /\ db' = "open"
      /\ UNCHANGED <<resolved, call, term>>

InitDBOn(R, m) ==
  /\ db = "null"
  /\ Commit(LAMBDA ts : initDB(files, db, ts), R, m)

CreateFolderOn(R, m, P, N) ==
  \E path \in P, name \in N :
    Commit(LAMBDA ts : LET i == initDB(files, db, ts)
                       IN  createFolder(i.files, path, name, ts, i.reads), R, m)

CreateFileOn(R, m, P, N) ==
  \E path \in P, name \in N, content \in Contents :
    Commit(LAMBDA ts : LET i == initDB(files, db, ts)
                       IN  createFile(i.files, path, name, content, ts, i.reads), R, m)

UpdateFileOn(R, m) ==
  \E path \in StoredArgs, content \in Contents :
    Commit(LAMBDA ts : LET i == initDB(files, db, ts)
                       IN  updateFile(i.files, path, content, ts, i.reads), R, m)

DeleteItemOn(R, m) ==
  \E path \in StoredArgs :
    Commit(LAMBDA ts : LET i == initDB(files, db, ts)
                       IN  deleteItem(i.files, path, i.reads), R, m)

MoveItemOn(R, m, P) ==
  \E sourcePath \in StoredArgs, destPath \in P :
    Commit(LAMBDA ts : LET i == initDB(files, db, ts)
                       IN  moveItem(i.files, sourcePath, destPath, ts, i.reads), R, m)

CopyItemOn(R, m, P) ==
  \E sourcePath \in StoredArgs, destPath \in P :
    Commit(LAMBDA ts : LET i == initDB(files, db, ts)
                       IN  copyItem(i.files, sourcePath, destPath, ts, i.reads), R, m)

(***************************************************************************)
(* Spec: the calls of the single logical writer, one at a time, each       *)
(* within one tick of the clock.  The store never reads a timestamp back,  *)
(* so what the calls do to keys, names, types, contents and parents is     *)
(* the same whatever the clock does.                                       *)
(***************************************************************************)
InitDB == InitDBOn(Still, MaxNodes)

CreateFolder == CreateFolderOn(Still, MaxNodes, PathArgs, Names)

CreateFile == CreateFileOn(Still, MaxNodes, PathArgs, Names)

UpdateFile == UpdateFileOn(Still, MaxNodes)

DeleteItem == DeleteItemOn(Still, MaxNodes)

MoveItem == MoveItemOn(Still, MaxNodes, PathArgs)

CopyItem == CopyItemOn(Still, MaxNodes, PathArgs)

Next ==
  \/ InitDB
  \/ CreateFolder
  \/ CreateFile
  \/ UpdateFile
  \/ DeleteItem
  \/ MoveItem
  \/ CopyItem

Spec == Init /\ [][Next]_vars

(***************************************************************************)
(* SpecClock: the same calls, with a clock that may advance between any    *)
(* two Date.now() calls.                                                   *)
(***************************************************************************)
ClockInitDB == InitDBOn(Ticking, MaxClockNodes)

ClockCreateFolder == CreateFolderOn(Ticking, MaxClockNodes, PathArgs, Names)

ClockCreateFile == CreateFileOn(Ticking, MaxClockNodes, PathArgs, Names)

ClockUpdateFile == UpdateFileOn(Ticking, MaxClockNodes)

ClockDeleteItem == DeleteItemOn(Ticking, MaxClockNodes)

ClockMoveItem == MoveItemOn(Ticking, MaxClockNodes, PathArgs)

ClockCopyItem == CopyItemOn(Ticking, MaxClockNodes, PathArgs)

NextClock ==
  \/ ClockInitDB
  \/ ClockCreateFolder
  \/ ClockCreateFile
  \/ ClockUpdateFile
  \/ ClockDeleteItem
  \/ ClockMoveItem
  \/ ClockCopyItem

SpecClock == Init /\ [][NextClock]_vars

(***************************************************************************)
(* SpecRelative: the same calls as Spec on a small store, where a caller   *)
(* also passes a path that does not begin with '/' and a name that holds   *)
(* a '/'.  The store functions take any string; for paths only resolvePath, *)
(* which the terminal's rm, mv and cp go through, makes them absolute, and *)
(* the terminal's mkdir and touch pass their argument on as the name.      *)
(***************************************************************************)
RelativeArgs == PathArgs \cup { <<"B">> }

RelativeNames == Names \cup { <<"a", "/", "B">> }

RelativeInitDB == InitDBOn(Still, MaxRelativeNodes)

RelativeCreateFolder ==
  CreateFolderOn(Still, MaxRelativeNodes, RelativeArgs, RelativeNames)

RelativeCreateFile ==
  CreateFileOn(Still, MaxRelativeNodes, RelativeArgs, RelativeNames)

RelativeUpdateFile == UpdateFileOn(Still, MaxRelativeNodes)

RelativeDeleteItem == DeleteItemOn(Still, MaxRelativeNodes)

RelativeMoveItem == MoveItemOn(Still, MaxRelativeNodes, RelativeArgs)

RelativeCopyItem == CopyItemOn(Still, MaxRelativeNodes, RelativeArgs)

NextRelative ==
  \/ RelativeInitDB
  \/ RelativeCreateFolder
  \/ RelativeCreateFile
  \/ RelativeUpdateFile
  \/ RelativeDeleteItem
  \/ RelativeMoveItem
  \/ RelativeCopyItem

SpecRelative == Init /\ [][NextRelative]_vars

(***************************************************************************)
(* SpecResolve: resolvePath, a pure function, applied to a current path    *)
(* and a target path drawn from bounded sets of strings, and then applied  *)
(* once more to the path it returned.                                      *)
(***************************************************************************)
\* The strings of at most n characters over '/', 'a' and '.'.
Strings(n) == UNION { [ 1..k -> { SLASH, "a", "." } ] : k \in 0..n }

\* '..' k times over, joined by '/'.
RECURSIVE Ups(_)
Ups(k) == IF k = 1 THEN DOTDOT ELSE DOTDOT \o <<SLASH>> \o Ups(k - 1)

\* The normalized paths of depth 0, 1 and 2.
NormalizedPaths == { Root, <<"/", "a">>, <<"/", "a", "/", "a">> }

\* p followed by k '..' segments.
upFrom(p, k) == (IF p = Root THEN p ELSE p \o <<SLASH>>) \o Ups(k)

CurrentPaths == Strings(MaxResolveLen)

TargetPaths ==
  Strings(MaxResolveLen)
    \cup { Ups(k) : k \in 1..MaxUp }
    \cup { upFrom(p, k) : p \in NormalizedPaths, k \in 1..MaxUp }

InitResolve ==
  /\ db = "null"
  /\ files = << >>
  /\ clock = 0
  /\ resolved \in [ currentPath : CurrentPaths, targetPath : TargetPaths,
                    first : { EMPTY }, second : { EMPTY }, calls : { 0 } ]
  /\ call = Idle
  /\ term = Prompt

\* resolvePath(currentPath, targetPath)
Resolve ==
  /\ resolved.calls = 0
  /\ resolved' =
       [ resolved EXCEPT
           !.first = resolvePath(resolved.currentPath, resolved.targetPath),
           !.calls = 1 ]
  /\ UNCHANGED <<db, files, clock, call, term>>

\* resolvePath(currentPath, the path the first call returned)
ResolveAgain ==
  /\ resolved.calls = 1
  /\ resolved' =
       [ resolved EXCEPT
           !.second = resolvePath(resolved.currentPath, resolved.first),
           !.calls = 2 ]
  /\ UNCHANGED <<db, files, clock, call, term>>

NextResolve ==
  \/ Resolve
  \/ ResolveAgain

SpecResolve == InitResolve /\ [][NextResolve]_vars

(***************************************************************************)
(* What the claims speak of.                                               *)
(***************************************************************************)

\* The store as the next call finds it.
store == opened(files, db)

\* The readings of a call that falls within the present tick.
now == [ i \in 1..MaxReads |-> clock ]

\* The nodes of the subtree of path p by path prefix: p and every path that
\* starts with p + '/'.
subtree(f, p) ==
  { q \in DOMAIN f : q = p \/ startsWith(q, p \o <<SLASH>>) }

\* The path of q, a node of the subtree of path s, once s is re-keyed to t.
rekey(q, s, t) == t \o substringFrom(q, Len(s))

\* The nodes reached from path p by following parentPath downward.
RECURSIVE below(_, _, _)
below(f, S, n) ==
  LET T == S \cup { q \in DOMAIN f : f[q].parentPath \in S }
  IN  IF n = 0 \/ T = S THEN S ELSE below(f, T, n - 1)

descendants(f, p) ==
  below(f, { q \in DOMAIN f : f[q].parentPath = p }, Cardinality(DOMAIN f))

(***************************************************************************)
(* SpecSteps: moveItem and deleteItem one store request at a time.  Nodes  *)
(* are made by createFolder and createFile calls; a moveItem or deleteItem *)
(* call then runs from one await to the next, and call holds its position. *)
(* Calls do not overlap, and a call that throws before its first write is  *)
(* not a step.                                                             *)
(***************************************************************************)
StepNames == Names \ { EMPTY }

\* The path arguments: the path of a stored node, a path one name below a
\* stored node, or the empty string.
StepArgs ==
  { p \in StoredArgs \cup { fullPath(q, n) : q \in StoredArgs, n \in StepNames }
           \cup { EMPTY } :
      Len(p) <= MaxStepLen }

StepCreateFolder ==
  /\ call = Idle
  /\ \E path \in StepArgs, name \in StepNames :
       \E r \in { createFolder(store, path, name, now, 0) } :
         /\ r.err = "none"
         /\ Cardinality(DOMAIN r.files) <= MaxStepNodes
         /\ Len(fullPath(path, name)) <= MaxStepLen
         /\ files' = r.files
         /\ db' = "open"
  /\ UNCHANGED <<clock, resolved, call, term>>

StepCreateFile ==
  /\ call = Idle
  /\ \E path \in StepArgs, name \in StepNames :
       \E r \in { createFile(store, path, name, "", now, 0) } :
         /\ r.err = "none"
         /\ Cardinality(DOMAIN r.files) <= MaxStepNodes
         /\ Len(fullPath(path, name)) <= MaxStepLen
         /\ files' = r.files
         /\ db' = "open"
  /\ UNCHANGED <<clock, resolved, call, term>>

\* moveItem up to its first write: the checks (part_002:158-179) and the put
\* of the source under its new key (186-192).
MoveBegin ==
  /\ call = Idle
  /\ \E sourcePath \in StoredArgs, destPath \in StepArgs :
       /\ moveSource(store, sourcePath) = "none"
       /\ LET source == store[sourcePath]
              finalDestPath == finalDest(store, source, destPath)
              parentPath == parentOf(finalDestPath)
              name == orElse(splitPop(finalDestPath), source.name)
          IN  /\ ~(has(store, destPath) /\ store[destPath].type # "folder")
              /\ ~( source.type = "folder"
                    /\ ( finalDestPath = sourcePath
                         \/ startsWith(finalDestPath, sourcePath \o <<SLASH>>) ) )
              /\ \A q \in subtree(store, sourcePath) :
                   Len(rekey(q, sourcePath, finalDestPath)) <= MaxStepLen
              /\ files' = put(store, [source EXCEPT !.path = finalDestPath,
                                                    !.parentPath = parentPath,
                                                    !.name = name,
                                                    !.updatedAt = clock])
              /\ call' = [ op |-> "moveItem",
                           pc |-> IF source.type = "folder"
                                  THEN "getAll" ELSE "deleteSource",
                           sourcePath |-> sourcePath,
                           destPath |-> destPath,
                           finalDestPath |-> finalDestPath,
                           before |-> store,
                           snap |-> << >>, children |-> << >>, i |-> 1 ]
  /\ db' = "open"
  /\ UNCHANGED <<clock, resolved, term>>

\* database.getAll('files') and the filter (196-197).
MoveGetAll ==
  /\ call.op = "moveItem" /\ call.pc = "getAll"
  /\ call' = [ call EXCEPT
                 !.snap = files,
                 !.children = childrenOf(files, call.sourcePath),
                 !.pc = IF childrenOf(files, call.sourcePath) = << >>
                        THEN "deleteSource" ELSE "putChild" ]
  /\ UNCHANGED <<db, files, clock, resolved, term>>

\* The put of a child under its new key (199-209).
MovePutChild ==
  /\ call.op = "moveItem" /\ call.pc = "putChild"
  /\ LET child == call.snap[call.children[call.i]]
         suffix == substringFrom(child.path, Len(call.sourcePath))
         newChildPath == call.finalDestPath \o suffix
         newChildParent == parentOf(newChildPath)
     IN  files' = put(files, [child EXCEPT !.path = newChildPath,
                                           !.parentPath = newChildParent,
                                           !.updatedAt = clock])
  /\ call' = [ call EXCEPT !.pc = "deleteChild" ]
  /\ UNCHANGED <<db, clock, resolved, term>>

\* The delete of the child's old key (210).
MoveDeleteChild ==
  /\ call.op = "moveItem" /\ call.pc = "deleteChild"
  /\ files' = delete(files, call.snap[call.children[call.i]].path)
  /\ call' = [ call EXCEPT
                 !.i = call.i + 1,
                 !.pc = IF call.i + 1 > Len(call.children)
                        THEN "deleteSource" ELSE "putChild" ]
  /\ UNCHANGED <<db, clock, resolved, term>>

\* The delete of the source's old key (215), with which moveItem returns.
MoveDeleteSource ==
  /\ call.op = "moveItem" /\ call.pc = "deleteSource"
  /\ files' = delete(files, call.sourcePath)
  /\ call' = Idle
  /\ UNCHANGED <<db, clock, resolved, term>>

\* One invocation of deleteItem on the stack of the recursion: its path,
\* the children it listed, and the child it is at.
Frame(path, children, i) == [ path |-> path, children |-> children, i |-> i ]

\* The top of the stack.
top == call.stack[Len(call.stack)]

\* deleteItem(path) up to its loop: the checks (130-138) and, for a folder,
\* the listing of its children (141).
enter(path) ==
  Frame(path,
        IF files[path].type = "folder" THEN listDirectory(files, path)
        ELSE << >>,
        1)

\* The outermost deleteItem, which is not a step when it throws.
DeleteBegin ==
  /\ call = Idle
  /\ \E path \in StoredArgs :
       /\ has(files, path)
       /\ path # Root
       /\ call' = [ op |-> "deleteItem", path |-> path, before |-> files,
                    stack |-> << enter(path) >> ]
  /\ UNCHANGED <<db, files, clock, resolved, term>>

\* await deleteItem(child.path) for the next child (142-144): the call
\* enters the child, or throws out of every invocation when nothing is
\* stored at the child's path or that path is '/'.
DeleteChild ==
  /\ call.op = "deleteItem"
  /\ top.i <= Len(top.children)
  /\ LET path == top.children[top.i].path
         rest == SubSeq(call.stack, 1, Len(call.stack) - 1)
     IN  call' = IF ~has(files, path) \/ path = Root THEN Idle
                 ELSE [ call EXCEPT
                          !.stack = rest
                                      \o << [ top EXCEPT !.i = top.i + 1 ] >>
                                      \o << enter(path) >> ]
  /\ UNCHANGED <<db, files, clock, resolved, term>>

\* database.delete('files', path) (148), with which the invocation returns.
DeleteOwn ==
  /\ call.op = "deleteItem"
  /\ top.i > Len(top.children)
  /\ files' = delete(files, top.path)
  /\ call' = IF Len(call.stack) = 1 THEN Idle
             ELSE [ call EXCEPT
                      !.stack = SubSeq(call.stack, 1, Len(call.stack) - 1) ]
  /\ UNCHANGED <<db, clock, resolved, term>>

NextSteps ==
  \/ StepCreateFolder
  \/ StepCreateFile
  \/ MoveBegin
  \/ MoveGetAll
  \/ MovePutChild
  \/ MoveDeleteChild
  \/ MoveDeleteSource
  \/ DeleteBegin
  \/ DeleteChild
  \/ DeleteOwn

SpecSteps == Init /\ [][NextSteps]_vars

(***************************************************************************)
(* SpecTerminal: the Terminal component on top of the store.  A key press  *)
(* runs its handler up to the handler's await; the store operation the     *)
(* handler has started is then pending, and the handler resumes when the   *)
(* operation returns.  Pending operations return in the order in which     *)
(* they were started, each one whole.                                      *)
(***************************************************************************)
\* What the user types after rm, edit and cd.
TermTargets == StepNames \cup { DOTDOT }

\* A store operation a handler awaits: the command, the path it was started
\* with (the current path for mkdir and touch, the resolved target or source
\* otherwise), its argument (the name for mkdir and touch, the resolved
\* destination for mv and cp) and the content to save.
Pending(cmd, path, arg, content) ==
  [ cmd |-> cmd, path |-> path, arg |-> arg, content |-> content ]

\* Index: initDB() on mount; the terminal is rendered once it has returned.
Mount ==
  /\ db = "null"
  /\ files' = initDB(files, db, now).files
  /\ db' = "open"
  /\ UNCHANGED <<clock, resolved, call, term>>

\* The creations that are pending.
creating ==
  Cardinality({ i \in 1..Len(term.pending) :
                  term.pending[i].cmd \in { "mkdir", "touch" } })

\* handleKeyDown, Enter: processCommand(inputValue) is called and not
\* awaited.  The command input is rendered while editingFile is not set.
Enter ==
  /\ db = "open"
  /\ term.editingFile = EMPTY
  /\ Len(term.pending) < MaxPending
  /\ \E op \in
         { Pending(cmd, term.currentPath, name, "") :
             cmd \in { "mkdir", "touch" },
             name \in { n \in StepNames :
                          /\ Len(fullPath(term.currentPath, n)) <= MaxPathLen
                          /\ Cardinality(DOMAIN files) + creating
                               < MaxTermNodes } }
         \cup
         { Pending(cmd, resolvePath(term.currentPath, t), t, "") :
             cmd \in { "rm", "edit", "cd" }, t \in TermTargets }
         \cup
         { Pending(cmd, resolvePath(term.currentPath, s),
                   resolvePath(term.currentPath, d), "") :
             cmd \in { "mv", "cp" }, s \in StepNames, d \in TermTargets } :
       term' = [ term EXCEPT !.pending = Append(@, op) ]
  /\ UNCHANGED <<db, files, clock, resolved, call>>

\* processCommand after its await, for the operation started first.
Resume ==
  /\ term.pending # << >>
  /\ Head(term.pending).cmd # "save"
  /\ LET op == Head(term.pending)
         rest == Tail(term.pending)
     IN  CASE op.cmd = "mkdir" ->
                /\ files' = createFolder(files, op.path, op.arg, now, 0).files
                /\ term' = [ term EXCEPT !.pending = rest ]
           [] op.cmd = "touch" ->
                /\ files' = createFile(files, op.path, op.arg, "", now, 0).files
                /\ term' = [ term EXCEPT !.pending = rest ]
           [] op.cmd = "rm" ->
                /\ files' = deleteItem(files, op.path, 0).files
                /\ term' = [ term EXCEPT !.pending = rest ]
           [] op.cmd = "mv" ->
                /\ files' = moveItem(files, op.path, op.arg, now, 0).files
                /\ WithinBounds(files', MaxTermNodes)
                /\ term' = [ term EXCEPT !.pending = rest ]
           [] op.cmd = "cp" ->
                /\ files' = copyItem(files, op.path, op.arg, now, 0).files
                /\ WithinBounds(files', MaxTermNodes)
                /\ term' = [ term EXCEPT !.pending = rest ]
           [] op.cmd = "cd" ->
                /\ files' = files
                /\ term' = IF has(files, op.path)
                              /\ files[op.path].type = "folder"
                           THEN [ term EXCEPT !.pending = rest,
                                              !.currentPath = op.path ]
                           ELSE [ term EXCEPT !.pending = rest ]
           [] op.cmd = "edit" ->
                /\ files' = files
                /\ term' = IF has(files, op.path)
                              /\ files[op.path].type = "file"
                           THEN [ term EXCEPT
                                    !.pending = rest,
                                    !.editingFile = op.path,
                                    !.editContent = files[op.path].content ]
                           ELSE [ term EXCEPT !.pending = rest ]
  /\ UNCHANGED <<db, clock, resolved, call>>

\* The textarea's onChange.
Change ==
  /\ db = "open"
  /\ term.editingFile # EMPTY
  /\ \E content \in Contents : term' = [ term EXCEPT !.editContent = content ]
  /\ UNCHANGED <<db, files, clock, resolved, call>>

\* handleEditKeyDown, Escape.
Escape ==
  /\ db = "open"
  /\ term.editingFile # EMPTY
  /\ term' = [ term EXCEPT !.editingFile = EMPTY, !.editContent = "" ]
  /\ UNCHANGED <<db, files, clock, resolved, call>>

\* handleEditKeyDown, Ctrl+C: updateFile(editingFile, editContent) is
\* started and awaited.
CtrlC ==
  /\ db = "open"
  /\ term.editingFile # EMPTY
  /\ Len(term.pending) < MaxPending
  /\ term' = [ term EXCEPT
                 !.pending = Append(@, Pending("save", term.editingFile, EMPTY,
                                               term.editContent)) ]
  /\ UNCHANGED <<db, files, clock, resolved, call>>

\* handleEditKeyDown after its await: when updateFile has thrown, nothing
\* catches the rejection and the rest of the handler does not run.
Saved ==
  /\ term.pending # << >>
  /\ Head(term.pending).cmd = "save"
  /\ LET op == Head(term.pending)
         r == updateFile(files, op.path, op.content, now, 0)
     IN  /\ files' = r.files
         /\ term' = IF r.err = "none"
                    THEN [ term EXCEPT !.pending = Tail(@),
                                       !.editingFile = EMPTY,
                                       !.editContent = "" ]
                    ELSE [ term EXCEPT !.pending = Tail(@) ]
  /\ UNCHANGED <<db, clock, resolved, call>>

NextTerminal ==
  \/ Mount
  \/ Enter
  \/ Resume
  \/ Change
  \/ Escape
  \/ CtrlC
  \/ Saved

SpecTerminal == Init /\ [][NextTerminal]_vars

(***************************************************************************)
(* SpecWaiting: the terminal in the hands of a user who presses Enter or   *)
(* Ctrl+C only when no store operation is pending.                         *)
(***************************************************************************)
EnterAlone == term.pending = << >> /\ Enter

CtrlCAlone == term.pending = << >> /\ CtrlC

NextWaiting ==
  \/ Mount
  \/ EnterAlone
  \/ Resume
  \/ Change
  \/ Escape
  \/ CtrlCAlone
  \/ Saved

SpecWaiting == Init /\ [][NextWaiting]_vars

(***************************************************************************)
(* Overlapping calls.  SpecOverlap runs initDB, createFolder and           *)
(* createFile one await at a time, for two callers whose calls may         *)
(* overlap.  Here db is the module's variable `db` itself (null until an   *)
(* openDB has resolved) and files is the object store as it is on disk.    *)
(* IndexedDB runs the transactions on one object store in the order in     *)
(* which they were created, so a get reads, and a put writes, at the step  *)
(* that issues the request; the await only delays the caller.              *)
(***************************************************************************)
Callers == 1..MaxCallers

\* A caller that has made no call.
NoCall ==
  [ op |-> "none", pc |-> "none", path |-> EMPTY, name |-> EMPTY,
    root |-> FALSE, rooted |-> FALSE, existing |-> FALSE, met |-> FALSE,
    written |-> << >> ]

InitOverlap ==
  /\ db = "null"
  /\ files = << >>
  /\ clock = 0
  /\ resolved = NotResolved
  /\ call = [ op |-> "overlap", opens |-> 0, callers |-> [ i \in Callers |-> NoCall ] ]
  /\ term = Prompt

\* The folder and the names the overlapping creates are given.
OverlapPaths == { Root, <<SLASH, "a">> }

creates == { "createFolder", "createFile" }

\* The caller's call has ended (or none was made).
ended(c) ==
  \/ c.pc \in { "none", "succeeded", "failed" }
  \/ c.op = "initDB" /\ c.pc = "initReturned"

\* The caller is inside a create, past the return of its initDB.
pastInitDB(c) ==
  \/ c.pc = "initReturned"
  \/ c.op \in creates /\ c.pc \in { "checked", "put", "succeeded", "failed" }

caller(i) == call.callers[i]

become(i, c) == call' = [ call EXCEPT !.callers[i] = c ]

\* A call up to its first await: initDB returns the cached handle (line 16)
\* or calls openDB (line 18).
Begin(i, op, path, name) ==
  /\ ended(caller(i))
  /\ \E c \in { [ NoCall EXCEPT !.op = op, !.path = path, !.name = name ] } :
       IF db = "open"
       THEN /\ become(i, [ c EXCEPT !.pc = "initReturned",
                                    !.rooted = has(files, Root) ])
       ELSE /\ call' = [ call EXCEPT !.opens = @ + 1,
                                     !.callers[i] = [ c EXCEPT !.pc = "opening" ] ]
  /\ UNCHANGED <<db, files, clock, resolved, term>>

CallInitDB == \E i \in Callers : Begin(i, "initDB", EMPTY, EMPTY)

CallCreateFolder ==
  \E i \in Callers, path \in OverlapPaths, name \in StepNames :
    Begin(i, "createFolder", path, name)

CallCreateFile ==
  \E i \in Callers, path \in OverlapPaths, name \in StepNames :
    Begin(i, "createFile", path, name)

\* openDB resolves: db is assigned (line 18) and the root is asked for (26).
OpenDBResolves ==
  \E i \in Callers :
    /\ caller(i).pc = "opening"
    /\ db' = "open"
    /\ become(i, [ caller(i) EXCEPT !.pc = "rootRead", !.root = has(files, Root) ])
    /\ UNCHANGED <<files, clock, resolved, term>>

\* The get of the root resolves: the root is put if it was missing (27-36),
\* else initDB returns (39).
RootRead ==
  \E i \in Callers :
    /\ caller(i).pc = "rootRead"
    /\ IF caller(i).root
       THEN /\ become(i, [ caller(i) EXCEPT !.pc = "initReturned",
                                            !.rooted = has(files, Root) ])
            /\ UNCHANGED files
       ELSE /\ files' = put(files, FileSystemItem(Root, Root, "folder", "", EMPTY,
                                                  clock, clock))
            /\ become(i, [ caller(i) EXCEPT !.pc = "rootPut" ])
    /\ UNCHANGED <<db, clock, resolved, term>>

\* The put of the root resolves and initDB returns (39).
RootPut ==
  \E i \in Callers :
    /\ caller(i).pc = "rootPut"
    /\ become(i, [ caller(i) EXCEPT !.pc = "initReturned",
                                    !.rooted = has(files, Root) ])
    /\ UNCHANGED <<db, files, clock, resolved, term>>

\* Two callers are both suspended between the existence check and the put
\* of a create of the same full path.
meet(c, d) ==
  /\ c.op \in creates /\ d.op \in creates
  /\ c.pc = "checked" /\ d.pc = "checked"
  /\ fullPath(c.path, c.name) = fullPath(d.path, d.name)

\* A create resumes after `await initDB()`: it builds the full path and asks
\* for the node stored there (62-64, 85-87).
Check ==
  \E i \in Callers :
    /\ caller(i).op \in creates
    /\ caller(i).pc = "initReturned"
    /\ \E c \in { [ caller(i) EXCEPT
                      !.pc = "checked",
                      !.existing = has(files, fullPath(caller(i).path, caller(i).name)) ] } :
         call' = [ call EXCEPT !.callers =
                     [ j \in Callers |->
                         IF j = i
                         THEN [ c EXCEPT !.met = \E k \in Callers \ {i} : meet(c, caller(k)) ]
                         ELSE [ caller(j) EXCEPT !.met = @ \/ meet(c, caller(j)) ] ] ]
    /\ UNCHANGED <<db, files, clock, resolved, term>>

\* The record a create builds (69-77, 92-100).
created(c) ==
  FileSystemItem(fullPath(c.path, c.name), c.name,
                 IF c.op = "createFolder" THEN "folder" ELSE "file", "",
                 c.path, clock, clock)

\* The get resolves: the create throws if it found a node (65-67, 88-90),
\* else it puts its record (79, 102).
ThrowOrPut ==
  \E i \in Callers :
    /\ caller(i).pc = "checked"
    /\ IF caller(i).existing
       THEN /\ become(i, [ caller(i) EXCEPT !.pc = "failed" ])
            /\ UNCHANGED files
       ELSE /\ files' = put(files, created(caller(i)))
            /\ become(i, [ caller(i) EXCEPT !.pc = "put",
                                            !.written = << created(caller(i)) >> ])
    /\ UNCHANGED <<db, clock, resolved, term>>

\* The put resolves and the create returns its record (80, 103).
Return ==
  \E i \in Callers :
    /\ caller(i).pc = "put"
    /\ become(i, [ caller(i) EXCEPT !.pc = "succeeded" ])
    /\ UNCHANGED <<db, files, clock, resolved, term>>

NextOverlap ==
  \/ CallInitDB
  \/ CallCreateFolder
  \/ CallCreateFile
  \/ OpenDBResolves
  \/ RootRead
  \/ RootPut
  \/ Check
  \/ ThrowOrPut
  \/ Return

SpecOverlap == InitOverlap /\ [][NextOverlap]_vars

(***************************************************************************)
(* The command line of the terminal.  SpecHistory runs the handlers of the *)
(* input element (Terminal.tsx:771-796 and 865) on the fields inputValue,  *)
(* commandHistory and historyIndex of terminalState; here term holds       *)
(* those fields, and what a submitted command does to the store is left    *)
(* out: no command writes any of the three.  The field key is e.key of the *)
(* last keyboard event the input element has handled.                      *)
(***************************************************************************)
initialTerminalState ==
  [ currentPath |-> Root, inputValue |-> EMPTY, commandHistory |-> << >>,
    historyIndex |-> -1, editingFile |-> EMPTY, editContent |-> "",
    key |-> "none" ]

InitHistory ==
  /\ db = "null"
  /\ files = << >>
  /\ clock = 0
  /\ resolved = NotResolved
  /\ call = Idle
  /\ term = initialTerminalState

SPACE == " "

\* What can be in the input element: strings of letters and spaces.
Typed == UNION { [ 1..n -> { SPACE, "a", "b" } ] : n \in 0..MaxInputLen }

RECURSIVE trimStart(_)
trimStart(s) == IF s # EMPTY /\ Head(s) = SPACE THEN trimStart(Tail(s)) ELSE s

RECURSIVE trimEnd(_)
trimEnd(s) ==
  IF s # EMPTY /\ s[Len(s)] = SPACE THEN trimEnd(SubSeq(s, 1, Len(s) - 1)) ELSE s

\* command.trim()
trim(s) == trimEnd(trimStart(s))

\* commandHistory[commandHistory.length - 1 - index] || ''
recalled(commandHistory, index) ==
  IF index >= 0 /\ index <= Len(commandHistory) - 1
  THEN commandHistory[Len(commandHistory) - index]
  ELSE EMPTY

\* The head of processCommand (449-458): a blank command returns at once,
\* any other is appended, trimmed, and historyIndex is reset.
processCommand(t, command) ==
  IF trim(command) = EMPTY THEN t
  ELSE [ t EXCEPT !.commandHistory = Append(@, trim(command)),
                  !.historyIndex = -1 ]

\* onChange of the input element, after a key that handleKeyDown lets pass.
ChangeInput ==
  /\ \E v \in Typed : term' = [ term EXCEPT !.inputValue = v, !.key = "other" ]
  /\ UNCHANGED <<db, files, clock, resolved, call>>

\* handleKeyDown, Enter.
EnterKey ==
  /\ trim(term.inputValue) = EMPTY \/ Len(term.commandHistory) < MaxHistory
  /\ term' = [ processCommand(term, term.inputValue) EXCEPT
                  !.inputValue = EMPTY, !.key = "Enter" ]
  /\ UNCHANGED <<db, files, clock, resolved, call>>

\* handleKeyDown, ArrowUp.
ArrowUp ==
  /\ Len(term.commandHistory) > 0
  /\ \E newIndex \in { IF term.historyIndex < Len(term.commandHistory) - 1
                       THEN term.historyIndex + 1 ELSE term.historyIndex } :
       term' = [ term EXCEPT !.historyIndex = newIndex,
                             !.inputValue = recalled(term.commandHistory, newIndex),
                             !.key = "ArrowUp" ]
  /\ UNCHANGED <<db, files, clock, resolved, call>>

\* handleKeyDown, ArrowDown.
ArrowDown ==
  /\ IF term.historyIndex > 0
     THEN term' = [ term EXCEPT
                      !.historyIndex = term.historyIndex - 1,
                      !.inputValue = recalled(term.commandHistory,
                                              term.historyIndex - 1),
                      !.key = "ArrowDown" ]
     ELSE term' = [ term EXCEPT !.historyIndex = -1, !.inputValue = EMPTY,
                                !.key = "ArrowDown" ]
  /\ UNCHANGED <<db, files, clock, resolved, call>>

NextHistory ==
  \/ ChangeInput
  \/ EnterKey
  \/ ArrowUp
  \/ ArrowDown

SpecHistory == InitHistory /\ [][NextHistory]_vars

(***************************************************************************)
(* The claims.                                                             *)
(***************************************************************************)

\* C1: in every reachable state every non-root node has a node stored at
\* its parentPath, and that node is a folder.
ParentIsStoredFolder ==
  \A p \in DOMAIN files \ {Root} :
    /\ has(files, files[p].parentPath)
    /\ files[files[p].parentPath].type = "folder"

\* C2: in every reachable state every non-root node has
\* path = (parentPath = "/" ? "/" + name : parentPath + "/" + name).
PathIsParentAndName ==
  \A p \in DOMAIN files \ {Root} :
    files[p].path = fullPath(files[p].parentPath, files[p].name)

\* C3: a successful moveItem(S, D) of a folder S with final destination F
\* leaves, for every node that was stored at S or at S + suffix, a node at
\* F + suffix of the same type and content, and leaves no node at S or at a
\* path starting with S + "/".
MoveRekeysSubtree ==
  \A S \in StoredArgs, D \in PathArgs :
    \A r \in { moveItem(store, S, D, now, 0) } :
      (r.err = "none" /\ store[S].type = "folder") =>
        LET F == finalDest(store, store[S], D)
        IN  /\ \A q \in subtree(store, S) :
                 /\ has(r.files, rekey(q, S, F))
                 /\ r.files[rekey(q, S, F)].type = store[q].type
                 /\ r.files[rekey(q, S, F)].content = store[q].content
            /\ subtree(r.files, S) = {}

\* C4: when destPath names a stored folder, a successful moveItem(S, D) ends
\* with a node stored at D/<source.name> that has the source's name, type
\* and content (also when the source is a file that is already in D).
MoveIntoFolderKeepsNode ==
  \A S \in StoredArgs, D \in PathArgs :
    \A r \in { moveItem(store, S, D, now, 0) } :
      (r.err = "none" /\ has(store, D) /\ store[D].type = "folder") =>
        LET F == fullPath(D, store[S].name)
        IN  /\ has(r.files, F)
            /\ r.files[F].name = store[S].name
            /\ r.files[F].type = store[S].type
            /\ r.files[F].content = store[S].content

\* C5: moveItem and copyItem of a stored non-root source fail with the
\* already-exists error whenever a node is stored at the final destination
\* path (the call not being one into the source itself), and a call that
\* succeeds has written to no key that was stored before it.
DestinationNeverOverwritten ==
  \A S \in StoredArgs \ {Root}, D \in PathArgs :
    \A m \in { moveItem(store, S, D, now, 0) } :
      \A c \in { copyItem(store, S, D, now, 0) } :
        LET F == finalDest(store, store[S], D)
        IN  /\ (has(store, F) /\ m.err # "IntoItself") => m.err = "DestinationExists"
            /\ (has(store, F) /\ c.err # "IntoItself") => c.err = "DestinationExists"
            /\ m.err = "none" =>
                 \A q \in subtree(store, S) : ~has(store, rekey(q, S, F))
            /\ c.err = "none" =>
                 \A q \in subtree(store, S) : ~has(store, rekey(q, S, F))

\* C6: after a successful deleteItem(p) no node is stored at p or at a path
\* that starts with p + "/".
DeleteRemovesSubtree ==
  \A p \in StoredArgs :
    \A r \in { deleteItem(store, p, 0) } :
      r.err = "none" => subtree(r.files, p) = {}

\* C7: in every reachable state, for every node N that moveItem and copyItem
\* operate on, the nodes whose path starts with N.path + "/" are exactly the
\* nodes reached from N by following parentPath downward.
PrefixIsParentClosure ==
  \A p \in DOMAIN files \ {Root} :
    subtree(files, p) \ {p} = descendants(files, p)

\* C8: once initDB has completed, a node is stored at "/", it is a folder,
\* and its record is the one initDB wrote (never deleted, moved, replaced).
RootIsTheRootFolder ==
  db = "open" =>
    /\ has(files, Root)
    /\ files[Root].type = "folder"
    /\ files[Root].name = Root
    /\ files[Root].parentPath = EMPTY
    /\ files[Root].content = ""

\* C9: a successful copyItem(S, D) leaves the node at S and every node under
\* S + "/" unchanged in all fields.
CopyLeavesSourceUnchanged ==
  \A S \in StoredArgs, D \in PathArgs :
    \A ts \in Ticking :
      \A r \in { copyItem(store, S, D, ts, 0) } :
        r.err = "none" =>
          \A q \in subtree(store, S) : has(r.files, q) /\ r.files[q] = store[q]

\* C10: after a successful copyItem(S, D) with final destination F, the
\* nodes stored at F and under F + "/" are exactly the nodes of the source
\* subtree with the prefix S replaced by F, each with the type and content
\* of its original and with createdAt and updatedAt read during the copy.
CopyIsTheSourceSubtree ==
  \A S \in StoredArgs, D \in PathArgs :
    \A ts \in Ticking :
      \A r \in { copyItem(store, S, D, ts, 0) } :
        r.err = "none" =>
          LET F == finalDest(store, store[S], D)
          IN  /\ subtree(r.files, F) = { rekey(q, S, F) : q \in subtree(store, S) }
              /\ \A q \in subtree(store, S) :
                   /\ has(r.files, rekey(q, S, F))
                   /\ r.files[rekey(q, S, F)].type = store[q].type
                   /\ r.files[rekey(q, S, F)].content = store[q].content
                   /\ r.files[rekey(q, S, F)].createdAt \in { ts[i] : i \in 1..r.reads }
                   /\ r.files[rekey(q, S, F)].updatedAt \in { ts[i] : i \in 1..r.reads }

\* C11: for a stored folder S other than the root and a destPath D at which
\* no file is stored, with F the final destination (D/<source.name> when a
\* folder is stored at D, else D): whenever F = S or F starts with S + "/",
\* moveItem(S, D) and copyItem(S, D) fail with the into-itself error and
\* write nothing.
IntoItselfIsRefused ==
  \A S \in StoredArgs \ {Root}, D \in PathArgs :
    LET F == IF D \in DOMAIN store
             THEN fullPath(D, store[S].name) ELSE D
    IN  ( /\ store[S].type = "folder"
          /\ D \in DOMAIN store => store[D].type = "folder"
          /\ F = S \/ startsWith(F, S \o <<SLASH>>) )
        => \A m \in { moveItem(store, S, D, now, 0) } :
             \A c \in { copyItem(store, S, D, now, 0) } :
               /\ m.err = "IntoItself" /\ m.files = store
               /\ c.err = "IntoItself" /\ c.files = store

\* A folder /a holding a folder, and a move of /a into that folder: the
\* final destination lies under the source and the move is refused.
IntoItselfIsRefusedCase ==
  \E S \in StoredArgs \ {Root}, D \in StoredArgs \ {Root} :
    /\ db = "open"
    /\ store[S].type = "folder" /\ store[D].type = "folder"
    /\ D # S /\ startsWith(D, S \o <<SLASH>>)
    /\ moveItem(store, S, D, now, 0).err = "IntoItself"
    /\ copyItem(store, S, D, now, 0).err = "IntoItself"

\* C12: moveItem and copyItem fail with the not-found error when no node is
\* stored at sourcePath, and with the cannot-move-root / cannot-copy-root
\* error when sourcePath is "/" (the stored root), whatever destPath is; in
\* both cases nothing is written.
SourceIsCheckedFirst ==
  \A S \in PathArgs, D \in PathArgs :
    \A m \in { moveItem(store, S, D, now, 0) } :
      \A c \in { copyItem(store, S, D, now, 0) } :
        /\ S \notin DOMAIN store =>
             /\ m.err = "SourceNotFound" /\ m.files = store
             /\ c.err = "SourceNotFound" /\ c.files = store
        /\ (S = Root /\ S \in DOMAIN store) =>
             /\ m.err = "CannotMoveRoot" /\ m.files = store
             /\ c.err = "CannotCopyRoot" /\ c.files = store

\* A store with a folder besides the root: a source path at which nothing
\* is stored is refused as not found, and the root is refused as the root
\* also when the destination is that folder or a free path.
SourceIsCheckedFirstCase ==
  /\ db = "open"
  /\ \E S \in PathArgs \ StoredArgs, D \in StoredArgs \ {Root} :
       /\ S # EMPTY
       /\ store[D].type = "folder"
       /\ moveItem(store, S, D, now, 0).err = "SourceNotFound"
       /\ copyItem(store, S, D, now, 0).err = "SourceNotFound"
       /\ moveItem(store, Root, D, now, 0).err = "CannotMoveRoot"
       /\ copyItem(store, Root, S, now, 0).err = "CannotCopyRoot"

\* C13: deleteItem(p) fails with the not-found error when no node is stored
\* at p, and in every reachable state deleteItem("/") fails with the
\* cannot-delete-root error; in both cases nothing is deleted.
RootDeleteIsRefused ==
  \A p \in RelativeArgs \cup {Root} :
    \A r \in { deleteItem(store, p, 0) } :
      /\ p \notin DOMAIN store => r.err = "NotFound" /\ r.files = store
      /\ p = Root => r.err = "CannotDeleteRoot" /\ r.files = store

\* C14: createFolder(P, n) and createFile(P, n, c) succeed exactly when no
\* node is stored at the full path of n under P, whether or not a folder is
\* stored at P; on success the node stored at the full path has that path,
\* the name n, the right type, parentPath P and content c (a file) or ""
\* (a folder), and no other record has changed; otherwise they fail with
\* the already-exists error and write nothing.
CreateSucceedsIffFree ==
  \A P \in PathArgs, n \in Names, c \in Contents :
    \A d \in { createFolder(store, P, n, now, 0) } :
      \A r \in { createFile(store, P, n, c, now, 0) } :
        LET full == IF P = Root THEN <<SLASH>> \o n ELSE P \o <<SLASH>> \o n
        IN  IF full \in DOMAIN store
            THEN /\ d.err = "FolderExists" /\ d.files = store
                 /\ r.err = "FileExists" /\ r.files = store
            ELSE /\ d.err = "none" /\ r.err = "none"
                 /\ DOMAIN d.files = DOMAIN store \cup {full}
                 /\ DOMAIN r.files = DOMAIN store \cup {full}
                 /\ \A q \in DOMAIN store :
                      d.files[q] = store[q] /\ r.files[q] = store[q]
                 /\ d.files[full].path = full /\ r.files[full].path = full
                 /\ d.files[full].name = n /\ r.files[full].name = n
                 /\ d.files[full].type = "folder" /\ r.files[full].type = "file"
                 /\ d.files[full].parentPath = P /\ r.files[full].parentPath = P
                 /\ d.files[full].content = "" /\ r.files[full].content = c

\* A file stored under a parent at which nothing is stored (a create that
\* succeeded whatever its parent), whose path a further create finds taken.
CreateSucceedsIffFreeCase ==
  \E q \in DOMAIN files \ {Root} :
    /\ files[q].type = "file" /\ files[q].content = "hi"
    /\ files[q].parentPath \notin DOMAIN files
    /\ q = fullPath(files[q].parentPath, files[q].name)
    /\ createFile(files, files[q].parentPath, files[q].name, "", now, 0).err
         = "FileExists"
    /\ createFolder(files, files[q].parentPath, files[q].name, now, 0).err
         = "FolderExists"
    /\ \E n \in Names :
         createFolder(files, q, n, now, 0).err = "none"

\* C15: updateFile(p, c) fails with the not-found error if no node is stored
\* at p and with the cannot-edit-a-folder error if the node is a folder,
\* writing nothing; on success the stored node has the content c and the
\* updatedAt read during the call (not earlier than the former one), its
\* path, name, type, parentPath and createdAt are as before, and no other
\* record has changed.
UpdateReplacesContentOnly ==
  \A p \in PathArgs, c \in Contents :
    \A ts \in Ticking :
      \A r \in { updateFile(store, p, c, ts, 0) } :
        IF p \notin DOMAIN store
        THEN r.err = "FileNotFound" /\ r.files = store
        ELSE IF store[p].type = "folder"
        THEN r.err = "CannotEditFolder" /\ r.files = store
        ELSE /\ r.err = "none"
             /\ DOMAIN r.files = DOMAIN store
             /\ \A q \in DOMAIN store \ {p} : r.files[q] = store[q]
             /\ r.files[p].content = c
             /\ r.files[p].updatedAt = ts[1]
             /\ r.files[p].updatedAt >= store[p].updatedAt
             /\ r.files[p].path = store[p].path
             /\ r.files[p].name = store[p].name
             /\ r.files[p].type = store[p].type
             /\ r.files[p].parentPath = store[p].parentPath
             /\ r.files[p].createdAt = store[p].createdAt

\* A file created at time 0 and holding "hi", updated at a later time; a
\* further update of it succeeds, one of the root folder is refused.
UpdateReplacesContentOnlyCase ==
  \E p \in DOMAIN files :
    /\ files[p].type = "file" /\ files[p].content = "hi"
    /\ files[p].createdAt = 0 /\ files[p].updatedAt = MaxClock
    /\ updateFile(files, p, "", now, 0).err = "none"
    /\ updateFile(files, p, "", now, 0).files[p].content = ""
    /\ updateFile(files, Root, "", now, 0).err = "CannotEditFolder"

\* C16: in every reachable state listDirectory(p), for a path p other than
\* the empty string, returns exactly the nodes whose parentPath equals p,
\* each once, and returns the empty sequence whenever no node is stored at
\* p or the node stored at p is a file.
ListIsChildrenOfFolder ==
  \A p \in PathArgs \ {EMPTY} :
    \A l \in { listDirectory(store, p) } :
      /\ { l[i] : i \in 1..Len(l) }
           = { store[q] : q \in { x \in DOMAIN store : store[x].parentPath = p } }
      /\ \A i, j \in 1..Len(l) : l[i] = l[j] => i = j
      /\ (p \notin DOMAIN store \/ store[p].type = "file") => l = << >>

\* C17 as stated: the sequence returned by listDirectory has every folder
\* before every file, and within the folders and within the files the nodes
\* are in case-sensitive lexicographic (code unit) order of name.
ListIsInCodeUnitOrder ==
  \A p \in PathArgs :
    \A l \in { listDirectory(store, p) } :
      \A i, j \in 1..Len(l) :
        i < j =>
          /\ l[i].type = "folder" \/ l[j].type = "file"
          /\ l[i].type = l[j].type => ~keyLess(l[j].name, l[i].name)

\* C17 as amended: the sequence returned by listDirectory has every folder
\* before every file, and within the folders and within the files the nodes
\* are in the order of name.localeCompare, in which "a" precedes "B".
ListIsInLocaleOrder ==
  \A p \in PathArgs :
    \A l \in { listDirectory(store, p) } :
      \A i, j \in 1..Len(l) :
        i < j =>
          /\ l[i].type = "folder" \/ l[j].type = "file"
          /\ l[i].type = l[j].type =>
               LET s == l[i].name
                   t == l[j].name
                   before(x, y) ==
                     \E n \in 1..Len(y) :
                       /\ n - 1 <= Len(x)
                       /\ \A h \in 1..(n - 1) : Collate(x[h]) = Collate(y[h])
                       /\ n > Len(x) \/ Collate(x[n]) < Collate(y[n])
               IN  ~before(t, s)

\* The root lists a folder named "B" before two files named "a" and "B",
\* in that order.
ListIsInLocaleOrderCase ==
  \E l \in { listDirectory(files, Root) } :
    /\ db = "open" /\ Len(l) = 3
    /\ l[1].type = "folder" /\ l[1].name = <<"B">>
    /\ l[2].type = "file" /\ l[2].name = <<"a">>
    /\ l[3].type = "file" /\ l[3].name = <<"B">>

\* C18: in every reachable state no two distinct nodes have both the same
\* parentPath and the same name.
SiblingNamesAreUnique ==
  \A p, q \in DOMAIN files :
    (files[p].parentPath = files[q].parentPath /\ files[p].name = files[q].name)
      => p = q

\* C19: in every reachable state each non-root node's name is the final
\* slash-separated segment of its path, non-empty and without "/", and the
\* name of the node at "/" is "/".
NameIsLastSegment ==
  \A p \in DOMAIN files :
    IF p = Root THEN files[p].name = Root
    ELSE /\ files[p].name # EMPTY
         /\ \A i \in 1..Len(files[p].name) : files[p].name[i] # SLASH
         /\ Len(files[p].name) < Len(p)
         /\ p[Len(p) - Len(files[p].name)] = SLASH
         /\ SubSeq(p, Len(p) - Len(files[p].name) + 1, Len(p)) = files[p].name

\* C20: in every reachable state every folder node has empty content.
FolderContentIsEmpty ==
  \A p \in DOMAIN files : files[p].type = "folder" => files[p].content = ""

\* A folder stored one below another node, beside a file that holds "hi":
\* the folder's content is empty, and an update of the folder is refused.
FolderContentIsEmptyCase ==
  \E p, q \in DOMAIN files \ {Root} :
    /\ files[p].type = "folder" /\ files[p].content = ""
    /\ files[p].parentPath # Root
    /\ files[q].type = "file" /\ files[q].content = "hi"
    /\ updateFile(files, p, "hi", now, 0).err = "CannotEditFolder"

(***************************************************************************)
(* resolvePath (under SpecResolve).                                        *)
(***************************************************************************)
\* '/' itself, or a path that starts with '/', does not end with '/' and has
\* no empty segment.
wellFormed(p) ==
  \/ p = Root
  \/ /\ Len(p) >= 2
     /\ p[1] = SLASH
     /\ p[Len(p)] # SLASH
     /\ \A i \in 1..(Len(p) - 1) : ~(p[i] = SLASH /\ p[i + 1] = SLASH)

\* C21: whatever the current path and the target path, resolvePath returns
\* (it is defined on every pair of strings) a string that starts with '/',
\* has no empty segment and has no trailing slash unless it is exactly '/'.
ResolveIsWellFormed ==
  /\ resolved.calls >= 1 => wellFormed(resolved.first)
  /\ resolved.calls = 2 => wellFormed(resolved.second)

\* A current path with an empty segment and a trailing slash, a relative
\* target with an empty segment and a '.', both calls made.
ResolveIsWellFormedCase ==
  /\ resolved.calls = 2
  /\ resolved.currentPath = <<"/", "a", "/", "/">>
  /\ resolved.targetPath = <<"a", "/", "/", ".">>
  /\ resolved.first = <<"/", "a", "/", "a">>

\* C22: for every current path and every absolute path p,
\* resolvePath(cwd, resolvePath(cwd, p)) is resolvePath(cwd, p).
ResolveIsIdempotent ==
  (resolved.calls = 2 /\ startsWith(resolved.targetPath, <<SLASH>>))
    => resolved.second = resolved.first

\* An absolute target that is not normalized, resolved twice from a current
\* path other than '/'.
ResolveIsIdempotentCase ==
  /\ resolved.calls = 2
  /\ resolved.currentPath = <<"/", "a">>
  /\ resolved.targetPath = <<"/", "/", "a", "/">>
  /\ resolved.second = <<"/", "a">>

\* The depth of a normalized path whose segments are one character long.
depth(p) == Len(p) \div 2

\* Such a path without its last n segments ('/' when it has no more than n).
cut(p, n) == IF n >= depth(p) THEN Root ELSE SubSeq(p, 1, 2 * (depth(p) - n))

\* C23: '.' is a no-op and each '..' removes the last accumulated segment,
\* '..' at the root leaving '/': from a normalized current path of depth d,
\* k consecutive '..' segments give the current path without its last
\* min(k, d) segments, in the relative branch (the target is the '..'s) and
\* in the absolute branch (the target is the path followed by the '..'s).
DotDotGoesUp ==
  resolved.calls >= 1 =>
    /\ resolved.currentPath \in NormalizedPaths =>
         /\ resolved.targetPath = DOT
              => resolved.first = resolved.currentPath
         /\ \A k \in 1..MaxUp :
              /\ resolved.targetPath = Ups(k)
                   => resolved.first = cut(resolved.currentPath, k)
              /\ resolved.targetPath = DOT \o <<SLASH>> \o Ups(k)
                   => resolved.first = cut(resolved.currentPath, k)
    /\ \A p \in NormalizedPaths, k \in 1..MaxUp :
         resolved.targetPath = upFrom(p, k) => resolved.first = cut(p, k)

\* '../..' from '/a/a' is '/': the spec's resolve("/a/b", "../..") == "/".
DotDotGoesUpCase ==
  /\ resolved.calls = 1
  /\ resolved.currentPath = <<"/", "a", "/", "a">>
  /\ resolved.targetPath = Ups(2)
  /\ resolved.first = Root

(***************************************************************************)
(* initDB.                                                                 *)
(***************************************************************************)
\* C24: when a call of initDB returns, a folder is stored at '/'; a call
\* that follows it finds the handle set and neither opens the database nor
\* writes; and a call that finds a record at '/' leaves that record as it
\* is.  The call is made on the store of any reachable state, with the
\* handle as it is and with the handle of a freshly loaded module (null).
InitDBGivesRootFolder ==
  \A d \in { db, "null" } :
    \A r \in { initDB(files, d, now) } :
      /\ r.err = "none"
      /\ has(r.files, Root)
      /\ r.files[Root].type = "folder"
      /\ initDB(r.files, "open", now) = Ok(r.files, 0)
      /\ has(files, Root) => r.files[Root] = files[Root]

(***************************************************************************)
(* Timestamps (under SpecClock).                                           *)
(***************************************************************************)
\* C28: a node created by createFolder or createFile is stored with
\* createdAt equal to updatedAt, whatever the clock does between two
\* successive readings.
CreatedAtIsUpdatedAt ==
  \A p \in PathArgs, n \in Names :
    \A ts \in Ticking :
      /\ \A r \in { createFolder(store, p, n, ts, 0) } :
           r.err = "none" =>
             r.files[fullPath(p, n)].createdAt
               = r.files[fullPath(p, n)].updatedAt
      /\ \A r \in { createFile(store, p, n, "", ts, 0) } :
           r.err = "none" =>
             r.files[fullPath(p, n)].createdAt
               = r.files[fullPath(p, n)].updatedAt

\* C29: with a clock that never goes back, every stored node has
\* createdAt <= updatedAt, and a successful moveItem leaves each node of the
\* source's subtree that it stores at its new key with the createdAt it had
\* and with an updatedAt not smaller than the one it had.
MoveKeepsCreatedAt ==
  /\ \A p \in DOMAIN files : files[p].createdAt <= files[p].updatedAt
  /\ \A S \in StoredArgs, D \in PathArgs :
       \A ts \in Ticking :
         \A r \in { moveItem(store, S, D, ts, 0) } :
           r.err = "none" =>
             LET F == finalDest(store, store[S], D)
                 moved == IF store[S].type = "folder"
                          THEN subtree(store, S) ELSE { S }
             IN  \A q \in moved :
                   has(r.files, rekey(q, S, F)) =>
                     /\ r.files[rekey(q, S, F)].createdAt = store[q].createdAt
                     /\ r.files[rekey(q, S, F)].updatedAt >= store[q].updatedAt
                     /\ r.files[rekey(q, S, F)].createdAt
                          <= r.files[rekey(q, S, F)].updatedAt

\* A folder and a file in it, both created at time 0, stored at new keys by
\* a move made at a later time.
MoveKeepsCreatedAtCase ==
  /\ clock = MaxClock
  /\ has(files, <<"/", "B">>) /\ has(files, <<"/", "B", "/", "a">>)
  /\ files[<<"/", "B">>].type = "folder"
  /\ files[<<"/", "B">>].createdAt = 0
  /\ files[<<"/", "B">>].updatedAt = MaxClock
  /\ files[<<"/", "B", "/", "a">>].parentPath = <<"/", "B">>
  /\ files[<<"/", "B", "/", "a">>].createdAt = 0
  /\ files[<<"/", "B", "/", "a">>].updatedAt = MaxClock
  /\ ~has(files, <<"/", "a">>)

(***************************************************************************)
(* The intermediate states of moveItem and deleteItem (under SpecSteps).   *)
(***************************************************************************)
\* The nodes a moveItem call in progress is moving: the source and, when it
\* is a folder, every node whose path starts with sourcePath + '/'.
moving ==
  IF call.before[call.sourcePath].type = "folder"
  THEN subtree(call.before, call.sourcePath)
  ELSE { call.sourcePath }

\* The record moveItem writes for the node q that it is moving.
movedItem(q) ==
  LET K == rekey(q, call.sourcePath, call.finalDestPath)
  IN  [ call.before[q] EXCEPT
          !.path = K,
          !.parentPath = parentOf(K),
          !.name = IF q = call.sourcePath
                   THEN orElse(splitPop(K), call.before[q].name) ELSE @,
          !.updatedAt = clock ]

\* C26: in every state between the first write of a moveItem call and its
\* return, each node of the source's subtree is stored under its old key
\* (the record it had) or under its new key (the record the move writes for
\* it): never under neither.
MoveKeepsOldOrNewKey ==
  call.op = "moveItem" =>
    \A q \in moving :
      \/ has(files, q) /\ files[q] = call.before[q]
      \/ /\ has(files, movedItem(q).path)
         /\ files[movedItem(q).path] = movedItem(q)

\* The nodes of the subtree a deleteItem call in progress is deleting: the
\* node at its path and every node reached from it by parentPath.
deleting == { call.path } \cup descendants(call.before, call.path)

\* C27: in every state between the start of a deleteItem call on a folder
\* and its return, every node of the folder's subtree that is not deleted
\* yet still has its parent stored.
DeleteKeepsParentStored ==
  call.op = "deleteItem" =>
    \A q \in deleting :
      (has(files, q) /\ has(call.before, call.before[q].parentPath))
        => has(files, call.before[q].parentPath)

(***************************************************************************)
(* The terminal (under SpecTerminal).                                      *)
(***************************************************************************)
\* C25: the save that Ctrl+C starts in edit mode on file f with buffer b
\* ends with content b stored at f and with edit mode left (editingFile
\* null), and Esc leaves edit mode without changing the store.
CtrlCSavesAndEscCancels ==
  [][ /\ Saved =>
           /\ has(files', Head(term.pending).path)
           /\ files'[Head(term.pending).path].content
                = Head(term.pending).content
           /\ term'.editingFile = EMPTY
      /\ Escape => (files' = files /\ term'.editingFile = EMPTY) ]_vars

\* C30: the store operation of a command never starts while the store
\* operation of an earlier command is pending: at most one is pending.
OneOperationAtATime == Len(term.pending) <= 1

(***************************************************************************)
(* Failing calls and frame effects.                                        *)
(***************************************************************************)
\* The final destination would put a folder at its own path or below it.
selfNesting(f, S, D) ==
  /\ f[S].type = "folder"
  /\ \/ finalDest(f, f[S], D) = S
     \/ startsWith(finalDest(f, f[S], D), S \o <<SLASH>>)

\* C31: a store operation that fails one of its precondition checks throws
\* and leaves every stored record as it was: createFolder / createFile on
\* an occupied full path; updateFile on an absent path or a folder;
\* deleteItem on an absent path or '/'; moveItem / copyItem on an absent
\* source, the root, a destination that is a stored file, or a destination
\* that nests a folder in itself.
FailedCheckChangesNothing ==
  /\ \A p \in PathArgs, n \in Names :
       has(store, fullPath(p, n)) =>
         /\ \A r \in { createFolder(store, p, n, now, 0) } :
              r.err # "none" /\ r.files = store
         /\ \A r \in { createFile(store, p, n, "hi", now, 0) } :
              r.err # "none" /\ r.files = store
  /\ \A p \in PathArgs :
       /\ (~has(store, p) \/ store[p].type = "folder") =>
            \A r \in { updateFile(store, p, "hi", now, 0) } :
              r.err # "none" /\ r.files = store
       /\ (~has(store, p) \/ p = Root) =>
            \A r \in { deleteItem(store, p, 0) } :
              r.err # "none" /\ r.files = store
  /\ \A S \in PathArgs, D \in PathArgs :
       ( \/ ~has(store, S)
         \/ S = Root
         \/ has(store, D) /\ store[D].type = "file"
         \/ selfNesting(store, S, D) ) =>
         /\ \A r \in { moveItem(store, S, D, now, 0) } :
              r.err # "none" /\ r.files = store
         /\ \A r \in { copyItem(store, S, D, now, 0) } :
              r.err # "none" /\ r.files = store

\* A store with a folder '/a' that holds a file '/a/B': a create on '/a', an
\* update of '/a', a delete of '/', a move onto the file and a copy of the
\* folder into itself all fail.
FailedCheckChangesNothingCase ==
  /\ db = "open"
  /\ has(files, <<"/", "a">>) /\ files[<<"/", "a">>].type = "folder"
  /\ has(files, <<"/", "a", "/", "B">>)
  /\ files[<<"/", "a", "/", "B">>].type = "file"
  /\ createFolder(files, Root, <<"a">>, now, 0).err = "FolderExists"
  /\ updateFile(files, <<"/", "a">>, "hi", now, 0).err = "CannotEditFolder"
  /\ deleteItem(files, Root, 0).err = "CannotDeleteRoot"
  /\ moveItem(files, <<"/", "a">>, <<"/", "a", "/", "B">>, now, 0).err
       = "DestinationExists"
  /\ copyItem(files, <<"/", "a">>, <<"/", "a">>, now, 0).err = "IntoItself"

\* C32: a successful deleteItem(p) removes only nodes whose path is p or
\* starts with p + '/', writes nothing, and leaves every other stored node
\* as it was.
DeleteRemovesOnlySubtree ==
  \A p \in PathArgs :
    \A r \in { deleteItem(store, p, 0) } :
      r.err = "none" =>
        /\ DOMAIN r.files \subseteq DOMAIN store
        /\ \A q \in DOMAIN store \ subtree(store, p) :
             has(r.files, q) /\ r.files[q] = store[q]

\* A folder '/a' with a file 'B' in it, and beside it a file '/B': the
\* delete of '/a' removes '/a' and '/a/B' and leaves '/' and '/B'.
DeleteRemovesOnlySubtreeCase ==
  /\ db = "open"
  /\ DOMAIN files = { Root, <<"/", "a">>, <<"/", "a", "/", "B">>, <<"/", "B">> }
  /\ files[<<"/", "a">>].type = "folder"
  /\ files[<<"/", "a", "/", "B">>].parentPath = <<"/", "a">>
  /\ files[<<"/", "B">>].name = <<"B">>
  /\ deleteItem(files, <<"/", "a">>, 0).err = "none"
  /\ DOMAIN deleteItem(files, <<"/", "a">>, 0).files = { Root, <<"/", "B">> }

\* C33: whenever the terminal has finished the commands it was given (cd,
\* mkdir, touch, rm, mv, cp, edit), its currentPath names a stored node,
\* and that node is a folder.
CurrentPathIsStoredFolder ==
  (db = "open" /\ term.pending = << >>) =>
    /\ has(files, term.currentPath)
    /\ files[term.currentPath].type = "folder"

\* C34: when two createFile / createFolder calls for the same full path
\* overlap, each suspended between its existence check and its put, at most
\* one of them succeeds, and the record the successful one wrote is not
\* overwritten by the other.
OverlappingCreatesOneWins ==
  call.op = "overlap" =>
    \A i, j \in Callers :
      (i # j /\ caller(i).met /\ caller(j).met) =>
        /\ ~(caller(i).pc = "succeeded" /\ caller(j).pc = "succeeded")
        /\ caller(i).pc = "succeeded" =>
             files[fullPath(caller(i).path, caller(i).name)] = caller(i).written[1]

\* C35: when calls of initDB overlap, the database is opened at most once,
\* and every call of initDB has returned only after the root folder's record
\* was stored.
InitDBOpensOnceAndRootFirst ==
  call.op = "overlap" =>
    /\ call.opens <= 1
    /\ \A i \in Callers : pastInitDB(caller(i)) => caller(i).rooted

\* Following parentPath upwards from path q, for at most k steps, arrives at
\* path p.
RECURSIVE climbsTo(_, _, _, _)
climbsTo(f, q, p, k) ==
  \/ q = p
  \/ k > 0 /\ has(f, q) /\ climbsTo(f, f[q].parentPath, p, k - 1)

\* C36: in every reachable state the parentPath relation is acyclic: no
\* stored node has its own path as parentPath, and no stored node is
\* reached again by following parentPath upwards from it (on which the
\* termination of deleteItem's recursion rests).
ParentPathIsAcyclic ==
  \A p \in DOMAIN store :
    ~climbsTo(store, store[p].parentPath, p, Cardinality(DOMAIN store))

\* C37: after every Enter, ArrowUp or ArrowDown key event in the terminal,
\* historyIndex lies between -1 and commandHistory.length - 1 and, when it
\* is 0 or more, the input value is
\* commandHistory[commandHistory.length - 1 - historyIndex]; an Enter on a
\* non-empty command appends it to commandHistory and resets historyIndex
\* to -1.
HistoryFollowsKeys ==
  [][ /\ (EnterKey \/ ArrowUp \/ ArrowDown) =>
           /\ term'.historyIndex >= -1
           /\ term'.historyIndex <= Len(term'.commandHistory) - 1
           /\ term'.historyIndex >= 0 =>
                term'.inputValue =
                  term'.commandHistory[Len(term'.commandHistory)
                                         - term'.historyIndex]
      /\ (EnterKey /\ trim(term.inputValue) # EMPTY) =>
           /\ term'.commandHistory =
                Append(term.commandHistory, trim(term.inputValue))
           /\ term'.historyIndex = -1
    ]_vars

====
